---------------------------- MODULE Spec2Model ----------------------------
(***************************************************************************)
(* Minesweeper board (src/board.py), adaptive controller                   *)
(* (src/ai_controller.py) and the click handler that drives them           *)
(* (src/main.py), as a state machine.                                      *)
(*                                                                         *)
(* A cell is a pair <<x, y>> with x the first index of the numpy arrays    *)
(* (0..height-1) and y the second (0..width-1), as in board.py.            *)
(* revealed and flagged are the boolean arrays, board the integer array,   *)
(* mine_positions the Python set.                                          *)
(***************************************************************************)
EXTENDS Integers, Sequences, FiniteSets, TLC

VARIABLES
    height,             \* Board.height
    width,              \* Board.width
    mine_count,         \* Board.mine_count
    board,              \* Board.board: -1 for a mine, else the stored number
    revealed,           \* Board.revealed
    flagged,            \* Board.flagged
    mine_positions,     \* Board.mine_positions
    move_history,       \* AIController.move_history
    danger_zones,       \* AIController.danger_zones
    difficulty_factor,  \* AIController.difficulty_factor, a float
    game_over,          \* Game.game_over
    won,                \* Game.won
    hint_position,      \* Game.hint_position, <<>> for None
    driver,             \* who calls: "calls" (a caller of the Board's and the
                        \* controller's methods, nothing constructed yet when
                        \* height = 0) or "game" (the click handler)
    error               \* the exception that ended the program, or "none"

boardVars == <<height, width, mine_count, board, revealed, flagged, mine_positions>>
aiVars == <<move_history, danger_zones, difficulty_factor>>
gameVars == <<game_over, won, hint_position>>
vars == <<boardVars, aiVars, gameVars, driver, error>>

---------------------------------------------------------------------------
(* Bounds of the model.                                                    *)

\* Largest mine_count a game is constructed with.
MaxMines == 2
\* Largest number of cells flagged at one time.
MaxFlags == 1
\* Largest length of the move history.
MaxHistory == 3

\* Largest length of the move history in SpecRisk and SpecRate.
MaxZoneHistory == 5

\* Largest height and width newGame is tried with.
MaxSide == 3

\* The <<height, width>> of the grids each specification constructs.  A
\* strip of seven cells is long enough for a mine to lie farther than
\* DriftDistance from a danger zone.
CallGrids == {<<1, 7>>, <<2, 3>>}
\* The <<height, width, mine_count>> of the boards of the game of Spec, which
\* stand for the presets of main.py, Board(10, 10, 10), Board(16, 16, 40)
\* and Board(20, 20, 80).  The boards of a game are square: handle_events
\* tests board_x against the width and passes it as the first index.
GamePresets == {<<3, 3, 1>>}
\* The <<board_x, board_y>> of the clicks of the game of Spec that reveal,
\* and of those that toggle a flag.
GameClicks == {<<0, 0>>, <<2, 1>>}
GameFlags == {<<0, 1>>}
\* The grid the methods are called on in Spec, and the cells of the calls:
\* those reveal, toggle_flag and record_move are called on, and the targets
\* of reposition_mine, which is called from every cell.  Three moves on
\* <<0, 0>> make it a danger zone, and <<0, 6>> is farther than DriftDistance
\* from it.
PlayGrids == {<<1, 7>>}
PlayReveals == {<<0, 0>>}
PlayFlags == {<<0, 1>>}
PlayTargets == {<<0, 1>>, <<0, 5>>}
PlayMoves == {<<0, 0>>}
RevealGrids == {<<3, 3>>, <<2, 2>>, <<1, 4>>}
RangeGrids == {<<3, 1>>, <<2, 2>>}
HintGrids == {<<2, 2>>}
MoveGrids == {<<2, 7>>}
AdaptGrids == {<<1, 3>>}
\* The cells reveal is called on in SpecRisk, the cells of the moves
\* recorded and the cell a flag is toggled on.
RiskReveals == {<<0, 4>>}
RiskMoves == {<<0, 0>>, <<0, 2>>}
RiskFlags == {<<0, 1>>}
\* The strip of SpecRate, the cells reveal is called on and the cell of the
\* moves recorded: five cells, so that four moves on five revealed cells
\* make a success rate of exactly 0.8.
RateGrids == {<<1, 5>>}
RateReveals == {<<0, 0>>, <<0, 2>>, <<0, 4>>}
RateMoves == {<<0, 0>>}
\* The grid of SpecDrift, the cell reveal is called on and the cell of the
\* moves recorded: two rows, so that the order of the scan of the block
\* shows, and six columns, so that the last cell of the other row is
\* farther than DriftDistance from the zone the moves make.
DriftGrids == {<<2, 6>>}
DriftReveals == {<<0, 0>>}
DriftMoves == {<<0, 0>>}
\* The strips of SpecDeep, the cells reveal is called on and the cell a flag
\* is set on.
DeepGrids == {<<1, w>> : w \in 985 .. 1005}
\* The depths of the frame of Board.reveal in the calls of a caller: called
\* from a script, from the game's handler, from a function one deeper.
CallDepths == {2, 4, 5}
DeepCells == {<<0, 0>>, <<0, 500>>}
DeepFlags == {<<0, 900>>}

---------------------------------------------------------------------------
(* Program constants.                                                      *)

MINE == -1
\* sys.getrecursionlimit() of CPython, which the program does not change: a
\* call deeper than this raises RecursionError.
RecursionLimit == 1000
\* The depth of the frame of Board.reveal when main.py runs the game: the
\* module, Game.run, Game.handle_events, Board.reveal.
RevealDepth == 4
\* The comparisons the interpreter counts as a nested call, which the
\* program does not choose: CPython 3.10 and older count every ==, <= and <,
\* CPython 3.11 those of the numbers of a numpy array and not those of two
\* int, CPython 3.12 and newer none.
CompareNests == {"always", "numbers", "never"}
\* What the outcome of reveal at the recursion limit depends on and the
\* board does not hold: frame, the depth of the frame of Board.reveal, and
\* compare_nests, the comparisons that count as a nested call.
Callers == [frame : CallDepths, compare_nests : CompareNests]
\* The specifications other than SpecDeep have boards of too few cells for
\* the calls to come near the limit, where every caller has the same
\* outcome, and draw one interpreter, CPython 3.11: reveal as
\* Game.handle_events calls it, and as a script calls it from its top level.
GameCallers ==
    {py \in Callers : py.frame = RevealDepth /\ py.compare_nests = "numbers"}
ScriptCallers ==
    {py \in Callers : py.frame = 2 /\ py.compare_nests = "numbers"}
\* The callers of reveal in the state: the game's, or the script's.
DriverCallers == IF driver = "game" THEN GameCallers ELSE ScriptCallers
\* A danger zone is dropped when farther than this from the latest move.
ZoneKeepDistance == 5
\* The last three moves are clustered when pairwise within this distance.
ClusterDistance == 3
\* A mine drifts only from farther than this from the zone.
DriftDistance == 5
\* get_hint: a zone within HintDistance of a move adds (HintWeight - distance)
\* times the difficulty_factor to its risk.
HintDistance == 3
HintWeight == 4

---------------------------------------------------------------------------
(* Board (src/board.py).  An operator that takes B takes the Board object: *)
(* a record of its fields.                                                 *)

CellsOf(h, w) == (0 .. (h - 1)) \X (0 .. (w - 1))

\* The Board object of the current state.
Self ==
    [height |-> height, width |-> width, mine_count |-> mine_count,
     board |-> board, revealed |-> revealed, flagged |-> flagged,
     mine_positions |-> mine_positions]

Cells == CellsOf(height, width)

\* 0 <= new_x < self.height and 0 <= new_y < self.width
InBounds(B, x, y) == 0 <= x /\ x < B.height /\ 0 <= y /\ y < B.width

\* The (dx, dy) of the nested loops over [-1, 0, 1], (0, 0) skipped, in order.
NeighbourOffsets ==
    << <<-1, -1>>, <<-1, 0>>, <<-1, 1>>, <<0, -1>>,
       <<0, 1>>, <<1, -1>>, <<1, 0>>, <<1, 1>> >>

\* Board._count_adjacent_mines on the array b of B: one is added for each
\* offset whose cell is in bounds and holds -1; the offsets name distinct
\* cells, so the count is the number of such offsets.
CountAdjacentMines(B, b, x, y) ==
    Cardinality({k \in 1 .. 8 :
        LET nx == x + NeighbourOffsets[k][1]
            ny == y + NeighbourOffsets[k][2]
        IN  InBounds(B, nx, ny) /\ b[<<nx, ny>>] = MINE})

\* The loop body shared by _update_numbers and reposition_mine, over the cells
\* of region: a cell that is not a mine gets its count.  The loop writes no
\* -1 and clears none, so the counts do not depend on the order of the writes.
RecomputeNumbers(B, b, region) ==
    [c \in DOMAIN b |->
        IF c \in region /\ b[c] # MINE
        THEN CountAdjacentMines(B, b, c[1], c[2])
        ELSE b[c]]

\* Board._update_numbers
UpdateNumbers(B, b) == RecomputeNumbers(B, b, DOMAIN b)

\* Board.__init__ and Board.initialize_board, for the cells np.random.choice
\* drew as mines: the Board object constructed.
NewBoard(h, w, mc, mines) ==
    LET B0 == [height |-> h, width |-> w, mine_count |-> mc,
               board |-> [c \in CellsOf(h, w) |-> IF c \in mines THEN MINE ELSE 0],
               revealed |-> [c \in CellsOf(h, w) |-> FALSE],
               flagged |-> [c \in CellsOf(h, w) |-> FALSE],
               mine_positions |-> mines]
    IN  [B0 EXCEPT !.board = UpdateNumbers(B0, B0.board)]

\* np.random.choice(len(positions), self.mine_count, replace=False) raises
\* ValueError when mine_count exceeds the number of positions (or is negative).
ChoiceFails(h, w, mc) == mc > h * w \/ mc < 0

\* The sets of mine cells initialize_board can draw.
MinePlacements(h, w, mc) == {m \in SUBSET CellsOf(h, w) : Cardinality(m) = mc}

\* The flood-fill of Board._reveal_adjacent calls itself, and CPython keeps
\* the calls on its stack: m is the state of the flood-fill, with revealed
\* the array as written so far, writes the cells this call of reveal has set
\* to True, in order, top the call of _reveal_adjacent that is running, with
\* its x, y and the index k of the neighbour its loops are at, stack the
\* calls that wait for it, outermost first, running FALSE when the outermost
\* call has returned, and error the exception raised.  The frame of reveal
\* is at depth py.frame, for the caller py, stack[i] at depth py.frame + i
\* and top at depth py.frame + Len(stack) + 1.

\* The running call of _reveal_adjacent is RecursionLimit deep: a call, or a
\* comparison that counts as one, raises RecursionError.
AtLimit(m, py) == py.frame + Len(m.stack) + 1 >= RecursionLimit

\* One iteration of the loops of Board._reveal_adjacent, for the neighbour
\* (nx, ny): dx and dy are compared with 0 and the coordinates with the
\* sides, the cell is set revealed, its number is compared with 0 and, when
\* it is 0, _reveal_adjacent is called on the cell.  At the limit the first
\* of these that counts as a nested call raises RecursionError.
RevealNeighbour(B, m, nx, ny, py) ==
    IF py.compare_nests = "always" /\ AtLimit(m, py)
    THEN [m EXCEPT !.error = "RecursionError"]
    ELSE IF /\ InBounds(B, nx, ny)
            /\ ~m.revealed[<<nx, ny>>]
            /\ ~B.flagged[<<nx, ny>>]
    THEN LET m1 == [m EXCEPT !.revealed[<<nx, ny>>] = TRUE,
                             !.writes = Append(@, <<nx, ny>>)]
         IN  IF py.compare_nests = "numbers" /\ AtLimit(m, py)
             THEN [m1 EXCEPT !.error = "RecursionError"]
             ELSE IF B.board[<<nx, ny>>] = 0
             THEN IF AtLimit(m, py)
                  THEN [m1 EXCEPT !.error = "RecursionError"]
                  ELSE [m1 EXCEPT !.stack = Append(@, m.top),
                                  !.top = [x |-> nx, y |-> ny, k |-> 1]]
             ELSE m1
    ELSE m

\* The next step of the running call of _reveal_adjacent: the iteration of
\* its loops for the k-th neighbour, or its return after the eighth.
RevealAdjacentStep(B, m, py) ==
    LET n == Len(m.stack)
        f == m.top
    IN  IF f.k > 8
        THEN IF n = 0
             THEN [m EXCEPT !.running = FALSE]
             ELSE [m EXCEPT !.top = m.stack[n], !.stack = SubSeq(@, 1, n - 1)]
        ELSE RevealNeighbour(B, [m EXCEPT !.top.k = f.k + 1],
                             f.x + NeighbourOffsets[f.k][1],
                             f.y + NeighbourOffsets[f.k][2], py)

RECURSIVE RevealAdjacentRun(_, _, _, _)
\* At most n steps of the flood-fill, until the outermost call has returned
\* or an exception is raised (the halves are run one after the other).
RevealAdjacentRun(B, m, n, py) ==
    IF ~m.running \/ m.error # "none" \/ n = 0
    THEN m
    ELSE IF n = 1
         THEN RevealAdjacentStep(B, m, py)
         ELSE RevealAdjacentRun(B, RevealAdjacentRun(B, m, n \div 2, py),
                                n - (n \div 2), py)

\* Board._reveal_adjacent(x, y), called by reveal: acc is the revealed array
\* and the writes before the call.  A call of _reveal_adjacent takes nine
\* steps, and there is one call for the cell of reveal and at most one for
\* each cell the flood-fill sets revealed.  The call raises RecursionError
\* when reveal is RecursionLimit deep.
RevealAdjacent(B, acc, x, y, py) ==
    IF py.frame >= RecursionLimit
    THEN [revealed |-> acc.revealed, writes |-> acc.writes,
          error |-> "RecursionError"]
    ELSE LET m == RevealAdjacentRun(B,
                      [revealed |-> acc.revealed, writes |-> acc.writes,
                       top |-> [x |-> x, y |-> y, k |-> 1], stack |-> <<>>,
                       running |-> TRUE, error |-> "none"],
                      9 * (B.height * B.width + 1), py)
         IN  [revealed |-> m.revealed, writes |-> m.writes, error |-> m.error]

\* The comparison of a number with -1 or 0 in Board.reveal raises
\* RecursionError when reveal is RecursionLimit deep and the comparison
\* counts as a call.
CompareRaises(py) ==
    py.compare_nests # "never" /\ py.frame >= RecursionLimit

\* Faulty variant of Reveal: the early return tests revealed only, so a
\* flagged cell is revealed.
RevealIgnoresFlag(B, x, y, py) ==
    IF B.revealed[<<x, y>>]
    THEN [result |-> TRUE, revealed |-> B.revealed, writes |-> <<>>,
          error |-> "none"]
    ELSE LET a1 == [revealed |-> [B.revealed EXCEPT ![<<x, y>>] = TRUE],
                    writes |-> <<<<x, y>>>>, error |-> "none"]
         IN  IF CompareRaises(py)
             THEN [result |-> FALSE, revealed |-> a1.revealed,
                   writes |-> a1.writes, error |-> "RecursionError"]
             ELSE IF B.board[<<x, y>>] = MINE
             THEN [result |-> FALSE, revealed |-> a1.revealed,
                   writes |-> a1.writes, error |-> "none"]
             ELSE LET a2 == IF B.board[<<x, y>>] = 0
                            THEN RevealAdjacent(B, a1, x, y, py)
                            ELSE a1
                  IN  [result |-> a2.error = "none", revealed |-> a2.revealed,
                       writes |-> a2.writes, error |-> a2.error]

\* Faulty variant of Reveal: the flood-fill runs from a mine too.
RevealExpandsFromMine(B, x, y, py) ==
    IF B.flagged[<<x, y>>] \/ B.revealed[<<x, y>>]
    THEN [result |-> TRUE, revealed |-> B.revealed, writes |-> <<>>,
          error |-> "none"]
    ELSE LET a1 == [revealed |-> [B.revealed EXCEPT ![<<x, y>>] = TRUE],
                    writes |-> <<<<x, y>>>>, error |-> "none"]
             a2 == IF CompareRaises(py)
                   THEN [a1 EXCEPT !.error = "RecursionError"]
                   ELSE IF B.board[<<x, y>>] \in {0, MINE}
                   THEN RevealAdjacent(B, a1, x, y, py)
                   ELSE a1
         IN  [result |-> B.board[<<x, y>>] # MINE /\ a2.error = "none",
              revealed |-> a2.revealed, writes |-> a2.writes,
              error |-> a2.error]

\* Board.reveal, called by py: the value returned (FALSE when an exception
\* is raised instead), the revealed array it leaves, the cells it set to
\* True, in order, and the exception raised.
Reveal(B, x, y, py) ==
    IF B.flagged[<<x, y>>] \/ B.revealed[<<x, y>>]
    THEN [result |-> TRUE, revealed |-> B.revealed, writes |-> <<>>,
          error |-> "none"]
    ELSE LET a1 == [revealed |-> [B.revealed EXCEPT ![<<x, y>>] = TRUE],
                    writes |-> <<<<x, y>>>>, error |-> "none"]
         IN  IF CompareRaises(py)
             THEN [result |-> FALSE, revealed |-> a1.revealed,
                   writes |-> a1.writes, error |-> "RecursionError"]
             ELSE IF B.board[<<x, y>>] = MINE
             THEN [result |-> FALSE, revealed |-> a1.revealed,
                   writes |-> a1.writes, error |-> "none"]
             ELSE LET a2 == IF B.board[<<x, y>>] = 0
                            THEN RevealAdjacent(B, a1, x, y, py)
                            ELSE a1
                  IN  [result |-> a2.error = "none", revealed |-> a2.revealed,
                       writes |-> a2.writes, error |-> a2.error]

\* Faulty variant of ToggleFlag: the flag is flipped on a revealed cell too.
ToggleFlagAlways(B, x, y) == [B.flagged EXCEPT ![<<x, y>>] = ~@]

\* Board.toggle_flag: the flagged array it leaves.
ToggleFlag(B, x, y) ==
    IF ~B.revealed[<<x, y>>]
    THEN [B.flagged EXCEPT ![<<x, y>>] = ~@]
    ELSE B.flagged

\* Faulty variant of IsWon: the mines have to be revealed too.
IsWonAllRevealed(B) == \A c \in CellsOf(B.height, B.width) : B.revealed[c]

\* Board.is_won
IsWon(B) ==
    \A c \in CellsOf(B.height, B.width) : B.revealed[c] \/ B.board[c] = MINE

\* Faulty variant of AffectedArea: the ranges end one short, at x and at y.
AffectedAreaShort(B, x, y) ==
    LET Max(a, b) == IF a >= b THEN a ELSE b
        Min(a, b) == IF a <= b THEN a ELSE b
    IN  (Max(0, x - 1) .. (Min(B.height, x + 1) - 1))
            \X (Max(0, y - 1) .. (Min(B.width, y + 1) - 1))

\* range(max(0, x-1), min(self.height, x+2)) x range(max(0, y-1), min(self.width, y+2))
AffectedArea(B, x, y) ==
    LET Max(a, b) == IF a >= b THEN a ELSE b
        Min(a, b) == IF a <= b THEN a ELSE b
    IN  (Max(0, x - 1) .. (Min(B.height, x + 2) - 1))
            \X (Max(0, y - 1) .. (Min(B.width, y + 2) - 1))

\* Faulty variant of RepositionMine: from_pos is not removed from the set.
RepositionMineKeepsFrom(B, from_pos, to_pos) ==
    IF B.board[from_pos] # MINE \/ B.board[to_pos] = MINE
    THEN [board |-> B.board, mine_positions |-> B.mine_positions, error |-> "none"]
    ELSE LET b1 == [B.board EXCEPT ![from_pos] = 0, ![to_pos] = MINE]
             b2 == RecomputeNumbers(B, b1, AffectedArea(B, from_pos[1], from_pos[2]))
             b3 == RecomputeNumbers(B, b2, AffectedArea(B, to_pos[1], to_pos[2]))
         IN  [board |-> b3,
              mine_positions |-> B.mine_positions \cup {to_pos},
              error |-> "none"]

\* Faulty variant of RepositionMine: the guard does not test to_pos.
RepositionMineUnguardedTarget(B, from_pos, to_pos) ==
    IF B.board[from_pos] # MINE
    THEN [board |-> B.board, mine_positions |-> B.mine_positions, error |-> "none"]
    ELSE LET b1 == [B.board EXCEPT ![from_pos] = 0, ![to_pos] = MINE]
             b2 == RecomputeNumbers(B, b1, AffectedArea(B, from_pos[1], from_pos[2]))
             b3 == RecomputeNumbers(B, b2, AffectedArea(B, to_pos[1], to_pos[2]))
         IN  [board |-> b3,
              mine_positions |-> (B.mine_positions \ {from_pos}) \cup {to_pos},
              error |-> "none"]

\* Faulty variant of RepositionMine: only the numbers around to_pos are
\* recomputed.
RepositionMineOneArea(B, from_pos, to_pos) ==
    IF B.board[from_pos] # MINE \/ B.board[to_pos] = MINE
    THEN [board |-> B.board, mine_positions |-> B.mine_positions, error |-> "none"]
    ELSE LET b1 == [B.board EXCEPT ![from_pos] = 0, ![to_pos] = MINE]
             b3 == RecomputeNumbers(B, b1, AffectedArea(B, to_pos[1], to_pos[2]))
         IN  [board |-> b3,
              mine_positions |-> (B.mine_positions \ {from_pos}) \cup {to_pos},
              error |-> "none"]

\* Board.reposition_mine: the board array and the mine set it leaves, and
\* the exception it raises, if any (set.remove of an absent element).
RepositionMine(B, from_pos, to_pos) ==
    IF B.board[from_pos] # MINE \/ B.board[to_pos] = MINE
    THEN [board |-> B.board, mine_positions |-> B.mine_positions, error |-> "none"]
    ELSE LET b1 == [B.board EXCEPT ![from_pos] = 0, ![to_pos] = MINE]
         IN  IF from_pos \notin B.mine_positions
             THEN [board |-> b1, mine_positions |-> B.mine_positions,
                   error |-> "KeyError"]
             ELSE LET b2 == RecomputeNumbers(B, b1,
                                AffectedArea(B, from_pos[1], from_pos[2]))
                      b3 == RecomputeNumbers(B, b2,
                                AffectedArea(B, to_pos[1], to_pos[2]))
                  IN  [board |-> b3,
                       mine_positions |->
                           (B.mine_positions \ {from_pos}) \cup {to_pos},
                       error |-> "none"]

---------------------------------------------------------------------------
(* The Board's methods on any integers.  The arrays are numpy arrays:      *)
(* a[x][y] with -height <= x < 0 is a[x + height][y], likewise for y, and   *)
(* an index outside [-n, n) raises IndexError.  The bounds tests and the    *)
(* ranges of the loops, and the tuples of mine_positions, take x and y as   *)
(* they are.                                                               *)

\* a[x][y] raises no IndexError.
Indexable(B, x, y) ==
    /\ -B.height <= x /\ x < B.height
    /\ -B.width <= y /\ y < B.width

\* The cell a[x][y] reads and writes, when it raises nothing.
At(B, x, y) == <<x % B.height, y % B.width>>

\* Board.reveal(x, y), called by py: the value returned (when nothing is
\* raised), the revealed array it leaves and the exception raised.
RevealAt(B, x, y, py) ==
    IF ~Indexable(B, x, y)
    THEN [result |-> FALSE, revealed |-> B.revealed, error |-> "IndexError"]
    ELSE LET c == At(B, x, y)
         IN  IF B.flagged[c] \/ B.revealed[c]
             THEN [result |-> TRUE, revealed |-> B.revealed, error |-> "none"]
             ELSE LET a1 == [revealed |-> [B.revealed EXCEPT ![c] = TRUE],
                             writes |-> <<c>>, error |-> "none"]
                  IN  IF CompareRaises(py)
                      THEN [result |-> FALSE, revealed |-> a1.revealed,
                            error |-> "RecursionError"]
                      ELSE IF B.board[c] = MINE
                      THEN [result |-> FALSE, revealed |-> a1.revealed,
                            error |-> "none"]
                      ELSE LET a2 == IF B.board[c] = 0
                                     THEN RevealAdjacent(B, a1, x, y, py)
                                     ELSE a1
                           IN  [result |-> a2.error = "none",
                                revealed |-> a2.revealed, error |-> a2.error]

\* Board.toggle_flag(x, y): the flagged array it leaves and the exception
\* raised.
ToggleFlagAt(B, x, y) ==
    IF ~Indexable(B, x, y)
    THEN [flagged |-> B.flagged, error |-> "IndexError"]
    ELSE LET c == At(B, x, y)
         IN  [flagged |-> IF ~B.revealed[c]
                          THEN [B.flagged EXCEPT ![c] = ~@]
                          ELSE B.flagged,
              error |-> "none"]

\* Board.reposition_mine(from_pos, to_pos): the board array and the mine set
\* it leaves and the exception raised.  The or of the guard reads to_pos
\* only when from_pos holds a mine.
RepositionMineAt(B, from_pos, to_pos) ==
    LET same(err) == [board |-> B.board, mine_positions |-> B.mine_positions,
                      error |-> err]
        f == At(B, from_pos[1], from_pos[2])
        t == At(B, to_pos[1], to_pos[2])
    IN  IF ~Indexable(B, from_pos[1], from_pos[2]) THEN same("IndexError")
        ELSE IF B.board[f] # MINE THEN same("none")
        ELSE IF ~Indexable(B, to_pos[1], to_pos[2]) THEN same("IndexError")
        ELSE IF B.board[t] = MINE THEN same("none")
        ELSE LET b1 == [B.board EXCEPT ![f] = 0, ![t] = MINE]
             IN  IF from_pos \notin B.mine_positions
                 THEN [board |-> b1, mine_positions |-> B.mine_positions,
                       error |-> "KeyError"]
                 ELSE LET b2 == RecomputeNumbers(B, b1,
                                    AffectedArea(B, from_pos[1], from_pos[2]))
                          b3 == RecomputeNumbers(B, b2,
                                    AffectedArea(B, to_pos[1], to_pos[2]))
                      IN  [board |-> b3,
                           mine_positions |->
                               (B.mine_positions \ {from_pos}) \cup {to_pos},
                           error |-> "none"]

---------------------------------------------------------------------------
(* Python floats.  difficulty_factor and the risk scores are IEEE 754      *)
(* binary64 numbers, and every sum and product is rounded to the nearest   *)
(* of them, ties to the even one.  A float f is the record [n, e] of the   *)
(* two integers with 5 * 2^56 * f = n * 2^53 + e: n / 40 is the decimal    *)
(* number the arithmetic would give without rounding, and e is what the    *)
(* roundings have left (0.1 is [n |-> 4, e |-> 2]).  Every float of the    *)
(* program is a multiple of 2^-56 below 2^16 in size, and e stays small.   *)

Float(n, e) == [n |-> n, e |-> e]

\* a < b
FloatLess(a, b) == a.n < b.n \/ (a.n = b.n /\ a.e < b.e)

FloatNeg(a) == Float(0 - a.n, 0 - a.e)

FloatAbs(a) == IF FloatLess(a, Float(0, 0)) THEN FloatNeg(a) ELSE a

\* 2^m modulo 5
Pow2Mod5(m) == <<1, 2, 4, 3>>[(m % 4) + 1]

\* The k with 2^(k-4) <= |a| < 2^(k-3), and 0 when |a| < 1/8: the floats
\* around a are the multiples of 2^(k-56).
Binade(a) ==
    CHOOSE k \in 0 .. 19 :
        /\ FloatLess(FloatAbs(a), Float(5 * 2^k, 0))
        /\ k > 0 => ~FloatLess(FloatAbs(a), Float(5 * 2^(k - 1), 0))

\* The float nearest to the number a stands for, a multiple of 2^-56: with
\* d = 5 * 2^k, n * 2^53 + e has to become a multiple of d, the nearest one,
\* and of two at the same distance the even multiple.
RoundToFloat(a) ==
    LET k == Binade(a)
        d == 5 * 2^k
        r == (a.n * 2^k * Pow2Mod5(53 - k) + a.e) % d
        r2 == (a.n * 2^(k + 1) * Pow2Mod5(52 - k) + a.e) % (2 * d)
    IN  IF k = 0 \/ r = 0 THEN a
        ELSE IF 2 * r < d THEN Float(a.n, a.e - r)
        ELSE IF 2 * r > d THEN Float(a.n, a.e - r + d)
        ELSE IF r2 < d THEN Float(a.n, a.e - r)
        ELSE Float(a.n, a.e - r + d)

\* a + b, which is the other float when one is 0.0
FloatAdd(a, b) ==
    IF a = Float(0, 0) THEN b
    ELSE IF b = Float(0, 0) THEN a
    ELSE RoundToFloat(Float(a.n + b.n, a.e + b.e))

\* a - b
FloatSub(a, b) == FloatAdd(a, FloatNeg(b))

\* i * a for an int i
FloatTimesInt(i, a) == RoundToFloat(Float(i * a.n, i * a.e))

\* v * 0.5 for an int v of the board array, which is exact
HalfOf(v) == Float(20 * v, 0)

\* difficulty_factor starts at 1.0, moves by 0.1 and is kept in [0.5, 2.0].
InitialDifficulty == Float(40, 0)
DifficultyStep == Float(4, 2)
MinDifficulty == Float(20, 0)
MaxDifficulty == Float(80, 0)

---------------------------------------------------------------------------
(* AIController (src/ai_controller.py).  An operator that takes A takes    *)
(* the controller's fields move_history, danger_zones, difficulty_factor.  *)

\* The AIController object of the current state.
Ai ==
    [move_history |-> move_history, danger_zones |-> danger_zones,
     difficulty_factor |-> difficulty_factor]

\* AIController.__init__
NewAi ==
    [move_history |-> <<>>, danger_zones |-> <<>>,
     difficulty_factor |-> InitialDifficulty]

Abs(n) == IF n < 0 THEN -n ELSE n

\* AIController._manhattan_distance
ManhattanDistance(pos1, pos2) == Abs(pos1[1] - pos2[1]) + Abs(pos1[2] - pos2[2])

\* AIController._are_moves_clustered
AreMovesClustered(moves) ==
    \A i \in 1 .. Len(moves) : \A j \in (i + 1) .. Len(moves) :
        ManhattanDistance(moves[i], moves[j]) <= ClusterDistance

RECURSIVE SumOf(_, _, _)
\* sum(x for x, _ in moves) for k = 1, sum(y for _, y in moves) for k = 2
SumOf(moves, k, i) ==
    IF i > Len(moves) THEN 0 ELSE moves[i][k] + SumOf(moves, k, i + 1)

\* AIController._get_cluster_center (// is floor division, as \div)
GetClusterCenter(moves) ==
    <<SumOf(moves, 1, 1) \div Len(moves), SumOf(moves, 2, 1) \div Len(moves)>>

InSeq(e, seq) == \E i \in 1 .. Len(seq) : seq[i] = e

\* Faulty variant of UpdateDangerZones: the center is appended without the
\* test that it is not a zone already.
UpdateDangerZonesNoTest(zones, history, x, y) ==
    LET kept == SelectSeq(zones,
                    LAMBDA pos : ManhattanDistance(pos, <<x, y>>) <= ZoneKeepDistance)
    IN  IF Len(history) >= 3
        THEN LET recent == SubSeq(history, Len(history) - 2, Len(history))
             IN  IF AreMovesClustered(recent)
                 THEN Append(kept, GetClusterCenter(recent))
                 ELSE kept
        ELSE kept

\* AIController._update_danger_zones, given the history record_move extended.
UpdateDangerZones(zones, history, x, y) ==
    LET kept == SelectSeq(zones,
                    LAMBDA pos : ManhattanDistance(pos, <<x, y>>) <= ZoneKeepDistance)
    IN  IF Len(history) >= 3
        THEN LET recent == SubSeq(history, Len(history) - 2, Len(history))
                 center == GetClusterCenter(recent)
             IN  IF AreMovesClustered(recent) /\ ~InSeq(center, kept)
                 THEN Append(kept, center)
                 ELSE kept
        ELSE kept

\* AIController.record_move
RecordMove(A, x, y) ==
    LET h == Append(A.move_history, <<x, y>>)
    IN  [A EXCEPT !.move_history = h,
                  !.danger_zones = UpdateDangerZones(A.danger_zones, h, x, y)]

\* The (dx, dy) of the loops for dx in range(-2, 3): for dy in range(-2, 3).
BlockOffsets ==
    [k \in 1 .. 25 |-> <<((k - 1) \div 5) - 2, ((k - 1) % 5) - 2>>]

\* The test of _move_mine_to_danger_zone on a cell of the block.
IsDriftTarget(B, nx, ny) ==
    /\ InBounds(B, nx, ny)
    /\ ~B.revealed[<<nx, ny>>]
    /\ <<nx, ny>> \notin B.mine_positions

\* _move_mine_to_danger_zone when the loops of the scan are nested the
\* other way, dy outside and dx inside.
MoveMineToDangerZoneDyOuter(B, zone) ==
    LET far == {m \in B.mine_positions : ManhattanDistance(m, zone) > DriftDistance}
        hits == {k \in 1 .. 25 :
                    IsDriftTarget(B, zone[1] + BlockOffsets[k][2],
                                     zone[2] + BlockOffsets[k][1])}
    IN  IF far = {} \/ hits = {}
        THEN {[board |-> B.board, mine_positions |-> B.mine_positions,
               error |-> "none"]}
        ELSE LET k == CHOOSE i \in hits : \A j \in hits : i <= j
                 target == <<zone[1] + BlockOffsets[k][2],
                             zone[2] + BlockOffsets[k][1]>>
             IN  {RepositionMine(B, m, target) : m \in far}

\* AIController._move_mine_to_danger_zone: the boards it can leave.  The
\* mines are tried in the iteration order of the Python set, which is any
\* order: the first one farther than DriftDistance from the zone moves, to
\* the first cell of the block that passes the test; the scan of the block
\* does not depend on the mine, so when it finds no cell for one mine it
\* finds none for the others.
MoveMineToDangerZone(B, zone) ==
    LET far == {m \in B.mine_positions : ManhattanDistance(m, zone) > DriftDistance}
        hits == {k \in 1 .. 25 :
                    IsDriftTarget(B, zone[1] + BlockOffsets[k][1],
                                     zone[2] + BlockOffsets[k][2])}
    IN  IF far = {} \/ hits = {}
        THEN {[board |-> B.board, mine_positions |-> B.mine_positions,
               error |-> "none"]}
        ELSE LET k == CHOOSE i \in hits : \A j \in hits : i <= j
                 target == <<zone[1] + BlockOffsets[k][1],
                             zone[2] + BlockOffsets[k][2]>>
             IN  {RepositionMine(B, m, target) : m \in far}

\* B with the outcome r of a reposition_mine.
WithMines(B, r) ==
    [B EXCEPT !.board = r.board, !.mine_positions = r.mine_positions]

RECURSIVE HandleMineMovementFrom(_, _, _)
\* AIController._handle_mine_movement from the i-th zone on: the outcomes it
\* can leave.  np.random.random() < 0.2 * difficulty_factor can come out
\* either way for every difficulty_factor in [0.5, 2.0].
HandleMineMovementFrom(B, zones, i) ==
    IF i > Len(zones)
    THEN {[board |-> B.board, mine_positions |-> B.mine_positions, error |-> "none"]}
    ELSE UNION {
            IF r.error # "none"
            THEN {r}
            ELSE HandleMineMovementFrom(WithMines(B, r), zones, i + 1) :
            r \in MoveMineToDangerZone(B, zones[i])
                    \cup {[board |-> B.board, mine_positions |-> B.mine_positions,
                           error |-> "none"]}}

\* AIController._handle_mine_movement
HandleMineMovement(B, A) == HandleMineMovementFrom(B, A.danger_zones, 1)

\* The cells AIController._find_safe_transformation_spot can return.
FindSafeTransformationSpot(B) ==
    LET candidates == {c \in CellsOf(B.height, B.width) :
                          ~B.revealed[c] /\ c \notin B.mine_positions}
    IN  IF candidates # {} THEN candidates ELSE {<<0, 0>>}

\* AIController._transform_random_tile: the outcomes it can leave.
\* next(iter(mine_positions)) is any mine, and raises StopIteration when
\* there is none.
TransformRandomTile(B) ==
    LET same == [board |-> B.board, mine_positions |-> B.mine_positions,
                 error |-> "none"]
        unrevealed == {c \in CellsOf(B.height, B.width) : ~B.revealed[c]}
    IN  IF unrevealed = {}
        THEN {same}
        ELSE UNION {
                IF c \in B.mine_positions
                THEN {RepositionMine(B, c, spot) :
                        spot \in FindSafeTransformationSpot(B)}
                ELSE {same} \cup
                     (IF B.mine_positions = {}
                      THEN {[same EXCEPT !.error = "StopIteration"]}
                      ELSE {RepositionMine(B, old_mine_pos, c) :
                                old_mine_pos \in B.mine_positions}) :
                c \in unrevealed}

\* AIController._handle_tile_transformation
HandleTileTransformation(B) ==
    {[board |-> B.board, mine_positions |-> B.mine_positions, error |-> "none"]}
        \cup TransformRandomTile(B)

\* Faulty variant of AdjustDifficulty: without the min and the max.
AdjustDifficultyUnbounded(B, A) ==
    LET revealed_count == Cardinality({c \in CellsOf(B.height, B.width) : B.revealed[c]})
        successes == Cardinality({i \in 1 .. Len(A.move_history) :
                                     B.board[A.move_history[i]] # MINE})
    IN  IF revealed_count > 0
        THEN IF 10 * successes > 8 * revealed_count
             THEN FloatAdd(A.difficulty_factor, DifficultyStep)
             ELSE IF 10 * successes < 5 * revealed_count
                  THEN FloatSub(A.difficulty_factor, DifficultyStep)
                  ELSE A.difficulty_factor
        ELSE A.difficulty_factor

\* Faulty variant of AdjustDifficulty: a success rate of 0.8 raises the
\* difficulty too.
AdjustDifficultyHighInclusive(B, A) ==
    LET revealed_count == Cardinality({c \in CellsOf(B.height, B.width) : B.revealed[c]})
        successes == Cardinality({i \in 1 .. Len(A.move_history) :
                                     B.board[A.move_history[i]] # MINE})
        up == FloatAdd(A.difficulty_factor, DifficultyStep)
        down == FloatSub(A.difficulty_factor, DifficultyStep)
    IN  IF revealed_count > 0
        THEN IF 10 * successes >= 8 * revealed_count
             THEN IF FloatLess(up, MaxDifficulty) THEN up ELSE MaxDifficulty
             ELSE IF 10 * successes < 5 * revealed_count
                  THEN IF FloatLess(MinDifficulty, down) THEN down ELSE MinDifficulty
                  ELSE A.difficulty_factor
        ELSE A.difficulty_factor

\* AIController._adjust_difficulty: the difficulty_factor it leaves.
\* success_rate is the float nearest to successes / revealed_count, and 0.8
\* and 0.5 the floats nearest to 4/5 and 1/2: as the quotient is a fraction
\* of small integers, it compares with them as the fractions compare.
\* min(2.0, up) is up when up < 2.0, max(0.5, down) is down when down > 0.5.
AdjustDifficulty(B, A) ==
    LET revealed_count == Cardinality({c \in CellsOf(B.height, B.width) : B.revealed[c]})
        successes == Cardinality({i \in 1 .. Len(A.move_history) :
                                     B.board[A.move_history[i]] # MINE})
        up == FloatAdd(A.difficulty_factor, DifficultyStep)
        down == FloatSub(A.difficulty_factor, DifficultyStep)
    IN  IF revealed_count > 0
        THEN IF 10 * successes > 8 * revealed_count
             THEN IF FloatLess(up, MaxDifficulty) THEN up ELSE MaxDifficulty
             ELSE IF 10 * successes < 5 * revealed_count
                  THEN IF FloatLess(MinDifficulty, down) THEN down ELSE MinDifficulty
                  ELSE A.difficulty_factor
        ELSE A.difficulty_factor

\* AIController.update_board_state: the outcomes it can leave, each the
\* board array, the mine set, the difficulty_factor and the exception raised.
UpdateBoardState(B, A) ==
    UNION {
        IF r1.error # "none"
        THEN {[board |-> r1.board, mine_positions |-> r1.mine_positions,
               difficulty_factor |-> A.difficulty_factor, error |-> r1.error]}
        ELSE {IF r2.error # "none"
              THEN [board |-> r2.board, mine_positions |-> r2.mine_positions,
                    difficulty_factor |-> A.difficulty_factor, error |-> r2.error]
              ELSE [board |-> r2.board, mine_positions |-> r2.mine_positions,
                    difficulty_factor |-> AdjustDifficulty(WithMines(B, r2), A),
                    error |-> "none"] :
              r2 \in HandleTileTransformation(WithMines(B, r1))} :
        r1 \in HandleMineMovement(B, A)}

\* Board.get_safe_moves: the cells in the order of the loops, x then y.
GetSafeMoves(B) ==
    LET positions == [k \in 1 .. (B.height * B.width) |->
                         <<(k - 1) \div B.width, (k - 1) % B.width>>]
    IN  SelectSeq(positions,
            LAMBDA c : ~B.revealed[c] /\ ~B.flagged[c] /\ B.board[c] # MINE)

\* The offsets of the loops of _calculate_move_risk: (0, 0) is not skipped.
RiskOffsets == [k \in 1 .. 9 |-> <<((k - 1) \div 3) - 1, ((k - 1) % 3) - 1>>]

RECURSIVE ZoneRisk(_, _, _)
\* risk_score after the first i zones of the first loop of
\* _calculate_move_risk: 0.0, and for each zone in order
\* risk_score += (4 - distance) * self.difficulty_factor.
ZoneRisk(A, move, i) ==
    IF i = 0
    THEN Float(0, 0)
    ELSE LET distance == ManhattanDistance(move, A.danger_zones[i])
             before == ZoneRisk(A, move, i - 1)
         IN  IF distance <= HintDistance
             THEN FloatAdd(before,
                           FloatTimesInt(HintWeight - distance, A.difficulty_factor))
             ELSE before

RECURSIVE RevealedRisk(_, _, _, _)
\* risk_score after the first k offsets of the second loop of
\* _calculate_move_risk: risk_score += board value * 0.5 for each revealed
\* cell.
RevealedRisk(B, A, move, k) ==
    IF k = 0
    THEN ZoneRisk(A, move, Len(A.danger_zones))
    ELSE LET new_x == move[1] + RiskOffsets[k][1]
             new_y == move[2] + RiskOffsets[k][2]
             before == RevealedRisk(B, A, move, k - 1)
         IN  IF InBounds(B, new_x, new_y) /\ B.revealed[<<new_x, new_y>>]
             THEN FloatAdd(before, HalfOf(B.board[<<new_x, new_y>>]))
             ELSE before

\* AIController._calculate_move_risk
CalculateMoveRisk(B, A, move) == RevealedRisk(B, A, move, 9)

\* AIController.get_hint: None is <<>>; min returns the first of the moves
\* with the lowest score.
GetHint(B, A) ==
    LET safe_moves == GetSafeMoves(B)
    IN  IF Len(safe_moves) = 0
        THEN <<>>
        ELSE LET score == [i \in 1 .. Len(safe_moves) |->
                              CalculateMoveRisk(B, A, safe_moves[i])]
                 best == CHOOSE i \in 1 .. Len(safe_moves) :
                             \A j \in 1 .. Len(safe_moves) :
                                 FloatLess(score[i], score[j])
                                     \/ (score[i] = score[j] /\ i <= j)
             IN  safe_moves[best]

---------------------------------------------------------------------------
(* The state machine.  A board and its controller are constructed; then    *)
(* operations are called, each running to completion before the next.  An  *)
(* exception ends the program.                                             *)

\* The state that holds the Board B and a new AIController(B).
Constructed(B) ==
    /\ height = B.height
    /\ width = B.width
    /\ mine_count = B.mine_count
    /\ board = B.board
    /\ revealed = B.revealed
    /\ flagged = B.flagged
    /\ mine_positions = B.mine_positions
    /\ move_history = NewAi.move_history
    /\ danger_zones = NewAi.danger_zones
    /\ difficulty_factor = NewAi.difficulty_factor
    /\ game_over = FALSE
    /\ won = FALSE
    /\ hint_position = <<>>
    /\ error = "none"

\* Board(w, h, mc) and AIController(board) for every grid of grids, every
\* mine count up to MaxMines and every placement of the mines.
InitOn(grids) ==
    \E hw \in grids : \E mc \in 0 .. MaxMines :
        \E mines \in MinePlacements(hw[1], hw[2], mc) :
            Constructed(NewBoard(hw[1], hw[2], mc, mines))

NumFlagged == Cardinality({c \in Cells : flagged[c]})

\* board.reveal(x, y)
RevealCall(x, y, py) ==
    /\ error = "none"
    /\ driver = "calls"
    /\ \E r \in {Reveal(Self, x, y, py)} :
           /\ revealed' = r.revealed
           /\ error' = r.error
    /\ UNCHANGED <<height, width, mine_count, board, flagged, mine_positions>>
    /\ UNCHANGED <<aiVars, gameVars, driver>>

\* board.toggle_flag(x, y)
ToggleFlagCall(x, y) ==
    /\ error = "none"
    /\ driver = "calls"
    /\ (flagged[<<x, y>>] \/ NumFlagged < MaxFlags)
    /\ flagged' = ToggleFlag(Self, x, y)
    /\ UNCHANGED <<height, width, mine_count, board, revealed, mine_positions>>
    /\ UNCHANGED <<aiVars, gameVars, driver, error>>

\* board.reposition_mine(from_pos, to_pos)
RepositionMineCall(from_pos, to_pos) ==
    /\ error = "none"
    /\ driver = "calls"
    /\ \E r \in {RepositionMine(Self, from_pos, to_pos)} :
           /\ board' = r.board
           /\ mine_positions' = r.mine_positions
           /\ error' = r.error
    /\ UNCHANGED <<height, width, mine_count, revealed, flagged>>
    /\ UNCHANGED <<aiVars, gameVars, driver>>

\* The <<board_x, board_y>> of the clicks that pass the test of
\* handle_events, 0 <= board_y < height and 0 <= board_x < width.  The
\* methods of the board take board_x as the first index, the one height
\* bounds, and flagged[board_x][board_y] raises IndexError when board_x or
\* board_y is no index of its axis; on a square board that does not happen.
ClickCells == (0 .. (width - 1)) \X (0 .. (height - 1))

\* The left click of Game.handle_events at <<board_x, board_y>>, flag mode
\* off, in a game that is not over: on a cell without flag, reveal, then
\* game over on False, else record_move and update_board_state; an exception
\* leaves what was written before it.  The events of one frame are handled
\* before update runs, so a click can come before update has seen the board
\* the last one left.
Turn(board_x, board_y) ==
    /\ error = "none"
    /\ driver = "game"
    /\ ~game_over
    /\ 0 <= board_y /\ board_y < height
    /\ 0 <= board_x /\ board_x < width
    /\ Len(move_history) < MaxHistory
    /\ IF ~(board_x < height /\ board_y < width)
       THEN /\ error' = "IndexError"
            /\ UNCHANGED <<board, revealed, mine_positions, aiVars, gameVars>>
       ELSE /\ ~flagged[<<board_x, board_y>>]
            /\ \E py \in GameCallers :
               \E r \in {Reveal(Self, board_x, board_y, py)} :
                   /\ revealed' = r.revealed
                   /\ IF r.error # "none"
                      THEN /\ error' = r.error
                           /\ UNCHANGED <<board, mine_positions, aiVars,
                                          game_over, won>>
                      ELSE IF ~r.result
                      THEN /\ game_over' = TRUE
                           /\ UNCHANGED <<board, mine_positions, aiVars, won, error>>
                      ELSE \E A \in {RecordMove(Ai, board_x, board_y)} :
                           \E u \in UpdateBoardState(
                                        [Self EXCEPT !.revealed = r.revealed], A) :
                               /\ move_history' = A.move_history
                               /\ danger_zones' = A.danger_zones
                               /\ board' = u.board
                               /\ mine_positions' = u.mine_positions
                               /\ difficulty_factor' = u.difficulty_factor
                               /\ error' = u.error
                               /\ UNCHANGED <<game_over, won>>
            /\ UNCHANGED hint_position
    /\ UNCHANGED <<height, width, mine_count, flagged, driver>>

\* The click of Game.handle_events at <<board_x, board_y>> that toggles the
\* flag, in a game that is not over: the left click in flag mode, or the
\* right click, which reads flagged[board_x][board_y] after the call.
FlagClick(board_x, board_y) ==
    /\ error = "none"
    /\ driver = "game"
    /\ ~game_over
    /\ 0 <= board_y /\ board_y < height
    /\ 0 <= board_x /\ board_x < width
    /\ IF ~(board_x < height /\ board_y < width)
       THEN /\ error' = "IndexError"
            /\ UNCHANGED flagged
       ELSE /\ (flagged[<<board_x, board_y>>] \/ NumFlagged < MaxFlags)
            /\ flagged' = ToggleFlag(Self, board_x, board_y)
            /\ UNCHANGED error
    /\ UNCHANGED <<height, width, mine_count, board, revealed, mine_positions>>
    /\ UNCHANGED <<aiVars, gameVars, driver>>

\* The boards Board(w, h, mc) constructs for the grids of grids.
BoardsOn(grids) ==
    UNION {UNION {{NewBoard(hw[1], hw[2], mc, mines) :
                      mines \in MinePlacements(hw[1], hw[2], mc)} :
                  mc \in 0 .. MaxMines} :
           hw \in grids}
HintBoards == BoardsOn(HintGrids)

\* Board(w, h, mc) and AIController(board) are constructed and take the
\* place of the board and the controller of the game.
NewBoardAndAi(boards) ==
    \E B \in boards :
        /\ height' = B.height
        /\ width' = B.width
        /\ mine_count' = B.mine_count
        /\ board' = B.board
        /\ revealed' = B.revealed
        /\ flagged' = B.flagged
        /\ mine_positions' = B.mine_positions
        /\ move_history' = NewAi.move_history
        /\ danger_zones' = NewAi.danger_zones
        /\ difficulty_factor' = NewAi.difficulty_factor

\* self.__init__() of Game.handle_events: any key or click when the game is
\* over, and the r key at any time.  The board it constructs is the one of
\* a preset, and the boards of the model stand for those of the presets.
Restart(boards) ==
    /\ error = "none"
    /\ driver = "game"
    /\ NewBoardAndAi(boards)
    /\ game_over' = FALSE
    /\ won' = FALSE
    /\ hint_position' = <<>>
    /\ UNCHANGED <<driver, error>>

\* A click on a difficulty of the start menu, which run shows while
\* game_started is false, and the return key that starts the game: the menu
\* constructs the board of the preset and its controller, and the fields of
\* the game stay as they are.  The escape key of a game that is not over
\* brings the menu up, and the events that follow the key in the same
\* frame are still handled, so a click of that frame can have hit a mine:
\* the menu is shown with game_over true after a loss.  It is never shown
\* with won true: update sets won only while game_started is true, and
\* every key or click of a game that is over constructs a new game, with
\* won false, before game_started is set to false.
SelectDifficulty(boards) ==
    /\ error = "none"
    /\ driver = "game"
    /\ ~won
    /\ NewBoardAndAi(boards)
    /\ UNCHANGED <<gameVars, driver, error>>

\* Game.update, which run calls after handle_events in every frame of a game
\* that has started: while the game is not over, won is is_won(), and the
\* game is over when it is true.
Update ==
    /\ error = "none"
    /\ driver = "game"
    /\ IF ~game_over
       THEN /\ won' = IsWon(Self)
            /\ game_over' = IsWon(Self)
       ELSE UNCHANGED <<game_over, won>>
    /\ UNCHANGED <<boardVars, aiVars, driver, error, hint_position>>

\* The methods of a board are called.
InitBoard == driver = "calls" /\ InitOn(CallGrids)

NextBoard ==
    \/ \E c \in Cells : \E py \in ScriptCallers : RevealCall(c[1], c[2], py)
    \/ \E c \in Cells : ToggleFlagCall(c[1], c[2])
    \/ \E f \in Cells : \E t \in Cells : RepositionMineCall(f, t)

SpecBoard == InitBoard /\ [][NextBoard]_vars

\* reveal is called on strips whose cells are more, or fewer by a few, than
\* the calls CPython nests, without a mine or with one mine in the last
\* cell, so that the flood-fill ends on a cell of number 1; a cell of
\* DeepCells is revealed by any of the callers, after a flag has been set or
\* not.
InitDeep ==
    /\ driver = "calls"
    /\ \E hw \in DeepGrids : \E mines \in {{}, {<<0, hw[2] - 1>>}} :
           Constructed(NewBoard(hw[1], hw[2], Cardinality(mines), mines))

NextDeep ==
    \/ \E c \in DeepCells : \E py \in Callers : RevealCall(c[1], c[2], py)
    \/ \E c \in DeepFlags : ToggleFlagCall(c[1], c[2])

SpecDeep == InitDeep /\ [][NextDeep]_vars

\* reveal and toggle_flag on the grids of RevealGrids.
InitReveal == driver = "calls" /\ InitOn(RevealGrids)

NextReveal ==
    \/ \E c \in Cells : \E py \in ScriptCallers : RevealCall(c[1], c[2], py)
    \/ \E c \in Cells : ToggleFlagCall(c[1], c[2])

SpecReveal == InitReveal /\ [][NextReveal]_vars

\* Before anything is constructed.
NotConstructed ==
    /\ height = 0
    /\ width = 0
    /\ mine_count = 0
    /\ board = <<>>
    /\ revealed = <<>>
    /\ flagged = <<>>
    /\ mine_positions = {}
    /\ move_history = <<>>
    /\ danger_zones = <<>>
    /\ difficulty_factor = InitialDifficulty
    /\ game_over = FALSE
    /\ won = FALSE
    /\ hint_position = <<>>
    /\ driver = "calls"
    /\ error = "none"

\* Board(w, h, mc), then AIController(board), where nothing is constructed
\* yet: np.random.choice raises, or the board and its controller are there.
NewGame(h, w, mc) ==
    /\ error = "none"
    /\ height = 0
    /\ IF ChoiceFails(h, w, mc)
       THEN /\ error' = "ValueError"
            /\ UNCHANGED <<boardVars, aiVars, gameVars, driver>>
       ELSE \E mines \in MinePlacements(h, w, mc) :
            \E B \in {NewBoard(h, w, mc, mines)} :
                /\ height' = B.height
                /\ width' = B.width
                /\ mine_count' = B.mine_count
                /\ board' = B.board
                /\ revealed' = B.revealed
                /\ flagged' = B.flagged
                /\ mine_positions' = B.mine_positions
                /\ move_history' = NewAi.move_history
                /\ danger_zones' = NewAi.danger_zones
                /\ difficulty_factor' = NewAi.difficulty_factor
                /\ UNCHANGED <<gameVars, driver, error>>

\* board.initialize_board() on a board that is there: the arrays are
\* cleared, then np.random.choice raises, or mine_count cells are drawn as
\* mines and the numbers are computed.  The controller keeps its fields.
InitializeBoardCall ==
    /\ error = "none"
    /\ driver = "calls"
    /\ height > 0
    /\ IF ChoiceFails(height, width, mine_count)
       THEN /\ board' = [c \in Cells |-> 0]
            /\ revealed' = [c \in Cells |-> FALSE]
            /\ flagged' = [c \in Cells |-> FALSE]
            /\ mine_positions' = {}
            /\ error' = "ValueError"
       ELSE \E mines \in MinePlacements(height, width, mine_count) :
            \E B \in {NewBoard(height, width, mine_count, mines)} :
                /\ board' = B.board
                /\ revealed' = B.revealed
                /\ flagged' = B.flagged
                /\ mine_positions' = B.mine_positions
                /\ UNCHANGED error
    /\ UNCHANGED <<height, width, mine_count, aiVars, gameVars, driver>>

NextNew ==
    \/ \E h \in 1 .. MaxSide : \E w \in 1 .. MaxSide : \E mc \in 0 .. (h * w + 1) :
           NewGame(h, w, mc)
    \/ InitializeBoardCall

SpecNew == NotConstructed /\ [][NextNew]_vars

\* The integers a caller passes as a coordinate: from one below 0, which
\* numpy takes from the end, to one past the end, which raises.
CoordsOf(n) == (0 - 1) .. n
AnyCell == CoordsOf(height) \X CoordsOf(width)

\* board.reveal(x, y), any integers
RevealAtCall(x, y, py) ==
    /\ error = "none"
    /\ driver = "calls"
    /\ \E r \in {RevealAt(Self, x, y, py)} :
           /\ revealed' = r.revealed
           /\ error' = r.error
    /\ UNCHANGED <<height, width, mine_count, board, flagged, mine_positions>>
    /\ UNCHANGED <<aiVars, gameVars, driver>>

\* board.toggle_flag(x, y), any integers
ToggleFlagAtCall(x, y) ==
    /\ error = "none"
    /\ driver = "calls"
    /\ \E r \in {ToggleFlagAt(Self, x, y)} :
           /\ Cardinality({c \in Cells : r.flagged[c]}) <= MaxFlags
           /\ flagged' = r.flagged
           /\ error' = r.error
    /\ UNCHANGED <<height, width, mine_count, board, revealed, mine_positions>>
    /\ UNCHANGED <<aiVars, gameVars, driver>>

\* board.reposition_mine(from_pos, to_pos), any integers
RepositionMineAtCall(from_pos, to_pos) ==
    /\ error = "none"
    /\ driver = "calls"
    /\ \E r \in {RepositionMineAt(Self, from_pos, to_pos)} :
           /\ board' = r.board
           /\ mine_positions' = r.mine_positions
           /\ error' = r.error
    /\ UNCHANGED <<height, width, mine_count, revealed, flagged>>
    /\ UNCHANGED <<aiVars, gameVars, driver>>

\* The methods of a board are called with any integers.
InitRange == driver = "calls" /\ InitOn(RangeGrids)

NextRange ==
    \/ \E c \in AnyCell : \E py \in ScriptCallers : RevealAtCall(c[1], c[2], py)
    \/ \E c \in AnyCell : ToggleFlagAtCall(c[1], c[2])
    \/ \E f \in AnyCell : \E t \in AnyCell : RepositionMineAtCall(f, t)

SpecRange == InitRange /\ [][NextRange]_vars

\* The h key of Game.handle_events, with the cooldown over.
Hint ==
    /\ error = "none"
    /\ driver = "game"
    /\ ~game_over
    /\ hint_position' = GetHint(Self, Ai)
    /\ UNCHANGED <<boardVars, aiVars, game_over, won, driver, error>>

\* The game is played with flags and hints.
InitHint == driver = "game" /\ InitOn(HintGrids)

NextHint ==
    \/ \E c \in ClickCells : Turn(c[1], c[2])
    \/ \E c \in ClickCells : FlagClick(c[1], c[2])
    \/ Hint
    \/ Update
    \/ Restart(HintBoards)
    \/ SelectDifficulty(HintBoards)

SpecHint == InitHint /\ [][NextHint]_vars

\* ai.record_move(x, y), on a history of fewer than n moves.
RecordMoveUpTo(n, x, y) ==
    /\ error = "none"
    /\ driver = "calls"
    /\ Len(move_history) < n
    /\ \E A \in {RecordMove(Ai, x, y)} :
           /\ move_history' = A.move_history
           /\ danger_zones' = A.danger_zones
           /\ difficulty_factor' = A.difficulty_factor
    /\ UNCHANGED <<boardVars, gameVars, driver, error>>

\* ai.record_move(x, y)
RecordMoveCall(x, y) == RecordMoveUpTo(MaxHistory, x, y)

\* The record_move of a controller is called, on a board without mines.
InitMoves ==
    /\ driver = "calls"
    /\ \E hw \in MoveGrids : Constructed(NewBoard(hw[1], hw[2], 0, {}))

NextMoves == \E c \in Cells : RecordMoveCall(c[1], c[2])

SpecMoves == InitMoves /\ [][NextMoves]_vars

\* ai.update_board_state()
UpdateBoardStateCall ==
    /\ error = "none"
    /\ driver = "calls"
    /\ \E u \in UpdateBoardState(Self, Ai) :
           /\ board' = u.board
           /\ mine_positions' = u.mine_positions
           /\ difficulty_factor' = u.difficulty_factor
           /\ error' = u.error
    /\ UNCHANGED <<height, width, mine_count, revealed, flagged>>
    /\ UNCHANGED <<move_history, danger_zones, gameVars, driver>>

\* The methods of a board and of its controller are called.
InitAdapt == driver = "calls" /\ InitOn(AdaptGrids)

NextAdapt ==
    \/ \E c \in Cells : \E py \in ScriptCallers : RevealCall(c[1], c[2], py)
    \/ \E c \in Cells : RecordMoveCall(c[1], c[2])
    \/ UpdateBoardStateCall

SpecAdapt == InitAdapt /\ [][NextAdapt]_vars

\* The methods of a board with two mines on a strip of five cells and of
\* its controller are called, with moves enough for three danger zones and
\* the difficulties the sums of floats round.
RiskBoards == {NewBoard(1, 5, 2, mines) : mines \in MinePlacements(1, 5, 2)}
InitRisk == driver = "calls" /\ \E B \in RiskBoards : Constructed(B)

NextRisk ==
    \/ \E c \in RiskReveals : \E py \in ScriptCallers : RevealCall(c[1], c[2], py)
    \/ \E c \in RiskMoves : RecordMoveUpTo(MaxZoneHistory, c[1], c[2])
    \/ \E c \in RiskFlags : ToggleFlagCall(c[1], c[2])
    \/ UpdateBoardStateCall

SpecRisk == InitRisk /\ [][NextRisk]_vars

\* The methods of a board on a strip of five cells and of its controller
\* are called, with moves enough for every success rate from 0 to 5 over 1
\* to 5 revealed cells, the rates 0.5 and 0.8 among them.
InitRate == driver = "calls" /\ InitOn(RateGrids)

NextRate ==
    \/ \E c \in RateReveals : \E py \in ScriptCallers : RevealCall(c[1], c[2], py)
    \/ \E c \in RateMoves : RecordMoveUpTo(MaxZoneHistory, c[1], c[2])
    \/ UpdateBoardStateCall

SpecRate == InitRate /\ [][NextRate]_vars

\* The methods of a board of two rows and six columns and of its
\* controller are called: a mine can lie farther than DriftDistance from a
\* danger zone, whose block has cells in both rows.
InitDrift == driver = "calls" /\ InitOn(DriftGrids)

NextDrift ==
    \/ \E c \in DriftReveals : \E py \in ScriptCallers : RevealCall(c[1], c[2], py)
    \/ \E c \in DriftMoves : RecordMoveCall(c[1], c[2])
    \/ UpdateBoardStateCall

SpecDrift == InitDrift /\ [][NextDrift]_vars

\* The program: the methods of a board and of its controller are called, or
\* the game is played, with every event handle_events and the start menu
\* handle.
GameBoards ==
    UNION {{NewBoard(p[1], p[2], p[3], mines) :
               mines \in MinePlacements(p[1], p[2], p[3])} : p \in GamePresets}

Init ==
    \/ driver = "calls" /\ InitOn(PlayGrids)
    \/ driver = "game" /\ \E B \in GameBoards : Constructed(B)

Next ==
    \/ \E c \in Cells \cap PlayReveals : \E py \in ScriptCallers :
           RevealCall(c[1], c[2], py)
    \/ \E c \in Cells \cap PlayFlags : ToggleFlagCall(c[1], c[2])
    \/ \E f \in Cells : \E t \in Cells \cap PlayTargets : RepositionMineCall(f, t)
    \/ \E c \in Cells \cap PlayMoves : RecordMoveCall(c[1], c[2])
    \/ UpdateBoardStateCall
    \/ InitializeBoardCall
    \/ \E c \in ClickCells \cap GameClicks : Turn(c[1], c[2])
    \/ \E c \in ClickCells \cap GameFlags : FlagClick(c[1], c[2])
    \/ Hint
    \/ Update
    \/ Restart(GameBoards)
    \/ SelectDifficulty(GameBoards)

Spec == Init /\ [][Next]_vars

---------------------------------------------------------------------------
(* The properties.  The ones about one call are stated in every reachable  *)
(* state, for every argument of the call: the operators above give what    *)
(* the call returns and what it leaves.                                    *)

CellSet(arr) == {c \in DOMAIN arr : arr[c]}

\* n is one of the eight cells around c.
Adjacent(c, n) ==
    /\ c # n
    /\ Abs(c[1] - n[1]) <= 1
    /\ Abs(c[2] - n[2]) <= 1

\* The cells that are mines, read off the array.
MineCells == {c \in Cells : board[c] = MINE}

\* The number of mine cells around c, in the array b.
MinesAround(b, c) == Cardinality({n \in DOMAIN b : Adjacent(c, n) /\ b[n] = MINE})

\* A revealed cell whose number is 0 lies beside an unrevealed cell that is
\* not a mine and that no click of the game flags.  The flood-fill from a
\* cell of number 0 reveals every unflagged cell around it, so the revealed
\* cell had a mine beside it when it was revealed: a turn of the controller
\* has moved the mine away, and the number has been recomputed.
MineMovedAway ==
    \E c \in Cells : \E n \in Cells \ GameFlags :
        /\ Adjacent(c, n)
        /\ revealed[c] /\ board[c] = 0
        /\ ~revealed[n] /\ board[n] # MINE

\* C1: after initialization and after any sequence of reveal, toggle_flag,
\* reposition_mine, record_move, update_board_state and initialize_board
\* calls, and of events of the game, with the relocations of the controller,
\* the number stored in every cell that is not a mine is the number of mines
\* among the cells around it.
C1_NumbersMatchMines ==
    \A c \in Cells : board[c] # MINE => board[c] = MinesAround(board, c)

\* In a game with a flag set, a turn of the controller has moved a mine
\* away from a revealed cell, whose number is 0 now.
C1_Witness ==
    /\ driver = "game"
    /\ error = "none"
    /\ NumFlagged > 0
    /\ move_history # <<>>
    /\ MineMovedAway

\* C2: in every reachable state the mine set has exactly mine_count elements
\* and is exactly the set of the cells whose value is MINE.
C2_MineSetExact ==
    /\ Cardinality(mine_positions) = mine_count
    /\ mine_positions = MineCells

\* In a game that is not over a flag is set and a mine lies on a revealed
\* cell: no reveal has hit a mine, a turn of the controller has moved the
\* mine there.
C2_Witness ==
    /\ driver = "game"
    /\ error = "none"
    /\ ~game_over
    /\ mine_count > 0
    /\ NumFlagged > 0
    /\ move_history # <<>>
    /\ \E m \in mine_positions : revealed[m]

\* C3, as the specification states it: reveal(x, y) on an unrevealed,
\* unflagged cell whose number is 0 returns True and sets revealed on the
\* closure, so that every unflagged cell around a cell of number 0 the call
\* has revealed is revealed after it, and on no cell that is flagged or was
\* revealed before, whoever calls it.  On a strip of more cells of number 0
\* than CPython has calls left to nest under the caller, the flood-fill is
\* cut by RecursionError, and the cell beside the last one revealed stays
\* unrevealed.
C3_RevealIsClosure ==
    \A c \in DeepCells \cap Cells :
        (~revealed[c] /\ ~flagged[c] /\ board[c] = 0) =>
            \A py \in Callers :
            LET r == Reveal(Self, c[1], c[2], py)
            IN  /\ r.result
                /\ \A i \in 1 .. Len(r.writes) :
                       /\ ~revealed[r.writes[i]]
                       /\ ~flagged[r.writes[i]]
                       /\ board[r.writes[i]] = 0 =>
                              \A k \in 1 .. 8 :
                                  LET n == <<r.writes[i][1] + NeighbourOffsets[k][1],
                                             r.writes[i][2] + NeighbourOffsets[k][2]>>
                                  IN  (n \in Cells /\ ~flagged[n]) => r.revealed[n]
                /\ \A d \in Cells :
                       r.revealed[d] <=>
                           (revealed[d] \/ \E i \in 1 .. Len(r.writes) : r.writes[i] = d)

\* C4: is_won() is true if and only if every cell that is not a mine is
\* revealed, whatever the mines' revealed and flagged are; and a reveal of a
\* cell that is not a mine makes it true exactly when the cells the call
\* reveals are the last unrevealed cells that are not mines.
C4_WonIffSafeCellsRevealed ==
    /\ IsWon(Self) <=> (Cells \ MineCells) \subseteq CellSet(revealed)
    /\ \A c \in Cells :
           (~revealed[c] /\ ~flagged[c] /\ board[c] # MINE) =>
               \A py \in DriverCallers :
               LET r == Reveal(Self, c[1], c[2], py)
                   written == {r.writes[i] : i \in 1 .. Len(r.writes)}
               IN  /\ ~IsWon(Self)
                   /\ IsWon([Self EXCEPT !.revealed = r.revealed]) <=>
                          ((Cells \ MineCells) \ CellSet(revealed)) \subseteq written

\* A won 3x3 grid whose two mines are neither revealed nor flagged.
C4_Witness ==
    /\ height = 3 /\ width = 3
    /\ mine_count = 2
    /\ IsWon(Self)
    /\ \A m \in mine_positions : ~revealed[m] /\ ~flagged[m]

\* C5, as the specification states it: on a grid just constructed with
\* mine_count = 0, reveal of a cell ends, returns True and leaves every cell
\* revealed, having set revealed once on every cell, whoever calls it.
\* _reveal_adjacent calls itself once for every cell it reveals, one call
\* inside the other along a strip, and on a strip of more cells than CPython
\* has calls left to nest under the caller reveal raises RecursionError with
\* the cells of the far end unrevealed.
C5_EmptyGridRevealedOnce ==
    (mine_count = 0 /\ CellSet(revealed) = {} /\ CellSet(flagged) = {}) =>
        \A c \in DeepCells \cap Cells :
            \A py \in Callers :
            LET r == Reveal(Self, c[1], c[2], py)
            IN  /\ r.error = "none"
                /\ r.result
                /\ CellSet(r.revealed) = Cells
                /\ Len(r.writes) = Cardinality(Cells)
                /\ Cardinality({r.writes[i] : i \in 1 .. Len(r.writes)})
                       = Len(r.writes)

\* C6: reveal(x, y) on a cell that is revealed, or flagged, returns True
\* (the value of the early return, which is not the mine's False) and
\* writes nothing: revealed is left as it was, and reveal assigns no other
\* field of the board.
C6_RevealNoop ==
    \A c \in Cells :
        (revealed[c] \/ flagged[c]) =>
            \A py \in DriverCallers :
            LET r == Reveal(Self, c[1], c[2], py)
            IN  /\ r.result
                /\ r.revealed = revealed
                /\ r.writes = <<>>
                /\ [Self EXCEPT !.revealed = r.revealed] = Self

\* A grid with a revealed cell and, beside it, a flagged one.
C6_Witness ==
    /\ driver = "calls"
    /\ \E c \in Cells : \E d \in Cells :
           /\ Adjacent(c, d)
           /\ revealed[c] /\ ~flagged[c]
           /\ flagged[d] /\ ~revealed[d]
    /\ \E c \in Cells : ~revealed[c] /\ ~flagged[c]

\* C7: no cell is both flagged and revealed; no reveal, of the cell or of
\* another from which the flood-fill comes, sets revealed on a flagged cell;
\* toggle_flag on a revealed cell leaves flagged as it was.
C7_FlaggedNotRevealed ==
    /\ \A c \in Cells : ~(flagged[c] /\ revealed[c])
    /\ \A d \in CellSet(flagged) : \A c \in Cells :
           \A py \in DriverCallers : ~Reveal(Self, c[1], c[2], py).revealed[d]
    /\ \A c \in CellSet(revealed) : ToggleFlag(Self, c[1], c[2]) = flagged

\* In a game, a reveal has stopped beside a flagged cell, and a turn of the
\* controller has then moved the mine away from a revealed cell and onto
\* the flagged cell, which is still unrevealed.
C7_Witness ==
    /\ driver = "game"
    /\ error = "none"
    /\ ~game_over
    /\ move_history # <<>>
    /\ MineMovedAway
    /\ \E d \in Cells :
           /\ flagged[d] /\ ~revealed[d] /\ board[d] = MINE
           /\ \E c \in Cells : Adjacent(c, d) /\ revealed[c]

\* C8: reposition_mine(from_pos, to_pos) with no mine at from_pos, or with a
\* mine at to_pos (from_pos = to_pos included), raises nothing and leaves
\* the board array, the mine set, revealed and flagged as they were.
C8_RepositionNoop ==
    \A f \in Cells : \A t \in Cells :
        (board[f] # MINE \/ board[t] = MINE) =>
            LET r == RepositionMine(Self, f, t)
            IN  /\ r.error = "none"
                /\ r.board = board
                /\ r.mine_positions = mine_positions
                /\ WithMines(Self, r) = Self

\* A board with two mines, one of them revealed, and a revealed cell that is
\* not a mine: each way of violating the precondition has its arguments.
C8_Witness ==
    /\ driver = "calls"
    /\ error = "none"
    /\ \E f \in Cells : \E t \in Cells : \E g \in Cells :
           /\ f # t
           /\ board[f] = MINE /\ board[t] = MINE /\ revealed[t]
           /\ board[g] # MINE /\ revealed[g]

\* C9: reposition_mine(from_pos, to_pos) with a mine at from_pos and none at
\* to_pos raises nothing, leaves a mine at to_pos and, at from_pos, the
\* number of mines around it; the mine set loses from_pos and gains to_pos;
\* the value of every cell outside the 3x3 blocks around from_pos and to_pos
\* is unchanged, and so are revealed and flagged.
C9_RepositionFrame ==
    \A f \in Cells : \A t \in Cells :
        (board[f] = MINE /\ board[t] # MINE) =>
            LET r == RepositionMine(Self, f, t)
                after == WithMines(Self, r)
            IN  /\ r.error = "none"
                /\ r.board[t] = MINE
                /\ r.board[f] # MINE
                /\ r.board[f] = MinesAround(r.board, f)
                /\ r.mine_positions = (mine_positions \ {f}) \cup {t}
                /\ \A c \in Cells :
                       (c # f /\ c # t /\ ~Adjacent(c, f) /\ ~Adjacent(c, t)) =>
                           r.board[c] = board[c]
                /\ after.revealed = revealed
                /\ after.flagged = flagged

\* With no cell flagged, a revealed cell whose number is 0 has two unrevealed
\* cells around it that are not mines: a mine has been moved away from it.
C9_Witness ==
    /\ driver = "calls"
    /\ error = "none"
    /\ CellSet(flagged) = {}
    /\ mine_count > 0
    /\ \E c \in Cells : \E n \in Cells : \E k \in Cells :
           /\ n # k /\ Adjacent(c, n) /\ Adjacent(c, k)
           /\ revealed[c] /\ board[c] = 0
           /\ ~revealed[n] /\ board[n] # MINE
           /\ ~revealed[k] /\ board[k] # MINE

\* C10, as the specification states it: no board is constructed with
\* mine_count >= width * height.  np.random.choice draws mine_count = width *
\* height positions without raising, so the board with a mine in every cell
\* is constructed.
C10_FullBoardRejected ==
    height > 0 => mine_count < height * width

\* What the calls of C11 must leave: nothing changed, and an error.
Rejected(r) ==
    /\ r.error # "none"
    /\ r.board = board
    /\ r.revealed = revealed
    /\ r.flagged = flagged
    /\ r.mine_positions = mine_positions

\* C11, as the specification states it: reveal, toggle_flag and
\* reposition_mine with a coordinate outside the grid, negative ones
\* included, raise an error and leave the values, revealed, flagged and the
\* mine set as they were.  numpy takes -height .. -1 and -width .. -1 as
\* indices from the end, so reveal(-1, 0) acts on the cell (height - 1, 0)
\* and raises nothing.
C11_OutOfRangeRejected ==
    LET same == [board |-> board, revealed |-> revealed, flagged |-> flagged,
                 mine_positions |-> mine_positions]
    IN  /\ \A c \in AnyCell :
               ~InBounds(Self, c[1], c[2]) =>
                   \A py \in DriverCallers :
                   LET r == RevealAt(Self, c[1], c[2], py)
                       g == ToggleFlagAt(Self, c[1], c[2])
                   IN  /\ Rejected([same EXCEPT !.revealed = r.revealed]
                                       @@ [error |-> r.error])
                       /\ Rejected([same EXCEPT !.flagged = g.flagged]
                                       @@ [error |-> g.error])
        /\ \A f \in AnyCell : \A t \in AnyCell :
               (~InBounds(Self, f[1], f[2]) \/ ~InBounds(Self, t[1], t[2])) =>
                   LET m == RepositionMineAt(Self, f, t)
                   IN  Rejected([same EXCEPT !.board = m.board,
                                             !.mine_positions = m.mine_positions]
                                    @@ [error |-> m.error])

\* The cells a hint may name: unrevealed, unflagged, not a mine.
HintCandidates ==
    {c \in Cells : ~revealed[c] /\ ~flagged[c] /\ board[c] # MINE}

RECURSIVE ZoneWeight(_, _)
\* The sum, over the first i danger zones, of 4 - distance for each zone
\* within distance 3 of the cell c: an integer.
ZoneWeight(c, i) ==
    IF i = 0
    THEN 0
    ELSE ZoneWeight(c, i - 1)
             + (IF ManhattanDistance(c, danger_zones[i]) <= 3
                THEN 4 - ManhattanDistance(c, danger_zones[i])
                ELSE 0)

RECURSIVE RevealedValue(_, _)
\* The sum of the values of the revealed cells among the first k of the
\* nine cells of the block around the cell c.
RevealedValue(c, k) ==
    IF k = 0
    THEN 0
    ELSE LET n == <<c[1] + ((k - 1) \div 3) - 1, c[2] + ((k - 1) % 3) - 1>>
         IN  RevealedValue(c, k - 1)
                 + (IF n \in Cells /\ revealed[n] THEN board[n] ELSE 0)

\* The risk score of the claim is ZoneWeight times the difficulty plus half
\* of RevealedValue, a rational number, the difficulty being the float
\* [n, e], which is (n * 2^53 + e) / (5 * 2^56).  The score of a minus the
\* score of b, times 5 * 2^56, is major * 2^53 + minor, with minor far below
\* 2^53: ScoreOrder has the sign of the difference.
ScoreOrder(a, b) ==
    LET dz == ZoneWeight(a, Len(danger_zones)) - ZoneWeight(b, Len(danger_zones))
        dv == RevealedValue(a, 9) - RevealedValue(b, 9)
        major == dz * difficulty_factor.n + 20 * dv
    IN  IF major # 0 THEN major ELSE dz * difficulty_factor.e

\* c comes before d when the rows are read one after the other.
RowMajorBefore(c, d) == c[1] < d[1] \/ (c[1] = d[1] /\ c[2] < d[2])

\* C12, as the specification states it: get_hint() returns None exactly
\* when no cell is unrevealed, unflagged and not a mine; otherwise it
\* returns such a cell whose risk score, the sum of (4 - distance) times the
\* difficulty over the danger zones within distance 3 and of half the value
\* of each revealed cell around it, is the lowest among them, and which is
\* the first in row-major order of the cells with that score.
\* _calculate_move_risk adds the terms as floats, zone after zone, and two
\* cells with the same terms in another order can get sums one unit in the
\* last place apart: min then takes the later cell.
C12_HintIsFirstSafest ==
    \E h \in {GetHint(Self, Ai)} :
        /\ (h = <<>>) <=> (HintCandidates = {})
        /\ HintCandidates # {} =>
               /\ h \in HintCandidates
               /\ \A d \in HintCandidates \ {h} :
                      \/ ScoreOrder(h, d) < 0
                      \/ ScoreOrder(h, d) = 0 /\ RowMajorBefore(h, d)

\* The elements of a sequence.
Range(seq) == {seq[i] : i \in 1 .. Len(seq)}

\* No element of the sequence comes twice.
NoDuplicates(seq) ==
    \A i \in 1 .. Len(seq) : \A j \in 1 .. Len(seq) : seq[i] = seq[j] => i = j

\* The centroid of three moves, each coordinate divided by 3 and floored.
Centroid3(a, b, c) ==
    <<CHOOSE q \in 0 .. (a[1] + b[1] + c[1]) :
          3 * q <= a[1] + b[1] + c[1] /\ a[1] + b[1] + c[1] < 3 * q + 3,
      CHOOSE q \in 0 .. (a[2] + b[2] + c[2]) :
          3 * q <= a[2] + b[2] + c[2] /\ a[2] + b[2] + c[2] < 3 * q + 3>>

\* C13: record_move(x, y) appends (x, y) to the history and leaves as zones
\* the zones within distance 5 of (x, y), in their order, and after them, when
\* the history has three moves or more and the last three are pairwise
\* within distance 3, their floored centroid unless it is one of the zones
\* kept.  So after every record_move no zone comes twice and every zone is
\* within distance 5 of the latest move; and after (0, 0), (1, 0), (0, 1)
\* the zone (0, 0) is there.
C13_RecordMoveZones ==
    /\ NoDuplicates(danger_zones)
    /\ Len(move_history) > 0 =>
           \A z \in Range(danger_zones) :
               ManhattanDistance(z, move_history[Len(move_history)]) <= 5
    /\ \A c \in Cells :
           LET A == RecordMove(Ai, c[1], c[2])
               n == Len(move_history)
               kept == SelectSeq(danger_zones,
                           LAMBDA z : ManhattanDistance(z, c) <= 5)
               clustered ==
                   /\ n >= 2
                   /\ ManhattanDistance(move_history[n - 1], move_history[n]) <= 3
                   /\ ManhattanDistance(move_history[n - 1], c) <= 3
                   /\ ManhattanDistance(move_history[n], c) <= 3
               center == Centroid3(move_history[n - 1], move_history[n], c)
           IN  /\ A.move_history = Append(move_history, c)
               /\ A.difficulty_factor = difficulty_factor
               /\ A.danger_zones =
                      IF clustered /\ center \notin Range(kept)
                      THEN Append(kept, center)
                      ELSE kept
               /\ NoDuplicates(A.danger_zones)
               /\ \A z \in Range(A.danger_zones) : ManhattanDistance(z, c) <= 5
    /\ (move_history = <<<<0, 0>>, <<1, 0>>>> /\ danger_zones = <<>>) =>
           RecordMove(Ai, 0, 1).danger_zones = <<<<0, 0>>>>

\* After the moves (0, 0), (1, 0), (0, 1) the zone (0, 0) is there, and a
\* cell of the grid is farther than 5 from it.
C13_Witness ==
    /\ move_history = <<<<0, 0>>, <<1, 0>>, <<0, 1>>>>
    /\ danger_zones = <<<<0, 0>>>>
    /\ \E c \in Cells : ManhattanDistance(c, <<0, 0>>) > 5

\* The entries of the move history whose cell is not a mine now, and the
\* revealed cells: the two counts of the success rate.
Successes ==
    Cardinality({i \in 1 .. Len(move_history) : board[move_history[i]] # MINE})
RevealedCount == Cardinality(CellSet(revealed))

\* The float a is at most the float b.
FloatAtMost(a, b) == ~FloatLess(b, a)

\* C14: the difficulty of a new controller is 1.0; in every state it is
\* within [0.5, 2.0], and an update_board_state leaves it within [0.5, 2.0]
\* and at most 0.1 from what it was: the exact difference of the two floats
\* is at most the float 0.1 and the half unit in the last place (of a float
\* in [1, 2)) that the rounding of the sum can add.
C14_DifficultyBounded ==
    /\ NewAi.difficulty_factor = Float(40, 0)
    /\ FloatAtMost(Float(20, 0), difficulty_factor)
    /\ FloatAtMost(difficulty_factor, Float(80, 0))
    /\ \A u \in UpdateBoardState(Self, Ai) :
           /\ FloatAtMost(Float(20, 0), u.difficulty_factor)
           /\ FloatAtMost(u.difficulty_factor, Float(80, 0))
           /\ FloatAtMost(FloatAbs(Float(u.difficulty_factor.n - difficulty_factor.n,
                                         u.difficulty_factor.e - difficulty_factor.e)),
                          Float(4, 2 + 40))

\* The difficulty has come down to 0.5 and the success rate is still under
\* 0.5: the next turn would lower it again.
C14_Witness ==
    /\ difficulty_factor = Float(20, 0)
    /\ error = "none"
    /\ RevealedCount > 0
    /\ 2 * Successes < RevealedCount

\* The difficulty the rebalancing leaves, from the difficulty d, with s
\* history entries on cells that are not mines and r > 0 revealed cells:
\* s / r > 0.8 raises it by 0.1 up to 2.0, s / r < 0.5 lowers it by 0.1 down
\* to 0.5, the sum and the difference being those of floats.
Rebalanced(d, s, r) ==
    IF 10 * s > 8 * r
    THEN (IF FloatLess(Float(80, 0), FloatAdd(d, Float(4, 2)))
          THEN Float(80, 0) ELSE FloatAdd(d, Float(4, 2)))
    ELSE IF 2 * s < r
    THEN (IF FloatLess(FloatSub(d, Float(4, 2)), Float(20, 0))
          THEN Float(20, 0) ELSE FloatSub(d, Float(4, 2)))
    ELSE d

\* C19: with at least one cell revealed, the rebalancing that ends an
\* update_board_state leaves the difficulty Rebalanced gives for the number
\* of history entries whose cell is not a mine then, after the relocations
\* of the turn, and the number of revealed cells.
C19_Rebalancing ==
    /\ RevealedCount > 0 =>
           AdjustDifficulty(Self, Ai) =
               Rebalanced(difficulty_factor, Successes, RevealedCount)
    /\ \A u \in UpdateBoardState(Self, Ai) :
           (u.error = "none" /\ RevealedCount > 0) =>
               u.difficulty_factor =
                   Rebalanced(difficulty_factor,
                       Cardinality({i \in 1 .. Len(move_history) :
                                       u.board[move_history[i]] # MINE}),
                       RevealedCount)

\* The difficulty has been raised, and the success rate is now exactly 0.8,
\* four entries of the history on cells that are not mines and five
\* revealed cells: the rebalancing leaves the difficulty as it is.
C19_Witness ==
    /\ error = "none"
    /\ FloatLess(Float(40, 0), difficulty_factor)
    /\ RevealedCount > 0
    /\ 5 * Successes = 4 * RevealedCount
    /\ AdjustDifficulty(Self, Ai) = difficulty_factor

\* The cells a relocated mine may be put on: unrevealed, not a mine.
FreeCells == {c \in Cells : ~revealed[c] /\ board[c] # MINE}

\* C15, as the specification states it: a tile transformation or a mine
\* drift that finds no target leaves the mines where they are, and a mine
\* is only ever moved onto an unrevealed cell that is not a mine.  When
\* _find_safe_transformation_spot has no candidate it returns (0, 0), and
\* reposition_mine moves the mine there when (0, 0) is not a mine, revealed
\* as it is.
C15_NoTargetNoMove ==
    /\ \A r \in TransformRandomTile(Self) :
           /\ FreeCells = {} => r.mine_positions = mine_positions
           /\ (r.mine_positions \ mine_positions) \subseteq FreeCells
    /\ \A z \in Range(danger_zones) : \A r \in MoveMineToDangerZone(Self, z) :
           /\ FreeCells = {} => r.mine_positions = mine_positions
           /\ (r.mine_positions \ mine_positions) \subseteq FreeCells

\* C16, as the specification states it: in a game where no reveal has hit a
\* mine (the game is not over, or it is over and won), no revealed cell is
\* a mine.  The transformation that finds no candidate moves the mine onto
\* (0, 0), which is revealed then.
C16_NoRevealedMine ==
    (driver = "game" /\ (~game_over \/ won)) =>
        \A c \in Cells : revealed[c] => board[c] # MINE

\* C17, as the specification states it: when the reveal of a click leaves
\* every cell that is not a mine revealed, is_won() is still true after the
\* record_move and the update_board_state of that click, when update reads
\* it.  The transformation can move the last mine onto (0, 0), and the cell
\* the mine has left is an unrevealed cell that is not a mine.
C17_WinNotUndone ==
    (driver = "game" /\ ~game_over /\ error = "none") =>
        \A c \in Cells :
            ~flagged[c] =>
                \A py \in GameCallers :
                LET r == Reveal(Self, c[1], c[2], py)
                    B == [Self EXCEPT !.revealed = r.revealed]
                IN  (r.result /\ IsWon(B)) =>
                        \A u \in UpdateBoardState(B, RecordMove(Ai, c[1], c[2])) :
                            u.error = "none" => IsWon(WithMines(B, u))

\* The mines farther than 5 from the zone z.
FarMines(z) == {m \in MineCells : ManhattanDistance(m, z) > 5}

\* The cells of the 5x5 block centred on z that are on the board, unrevealed
\* and not a mine.
FreeInBlock(z) ==
    {c \in FreeCells : Abs(c[1] - z[1]) <= 2 /\ Abs(c[2] - z[2]) <= 2}

\* C18: a drift step for a danger zone z leaves the layout unchanged when no
\* mine is farther than 5 from z or the block has no free cell; otherwise it
\* moves exactly one mine that was farther than 5 from z onto the first free
\* cell of the block in the order dx = -2..2 (outer), dy = -2..2 (inner).
C18_DriftStep ==
    \A z \in Range(danger_zones) : \A r \in MoveMineToDangerZone(Self, z) :
        IF FarMines(z) = {} \/ FreeInBlock(z) = {}
        THEN r.mine_positions = mine_positions /\ r.board = board
        ELSE \E m \in FarMines(z) : \E t \in FreeInBlock(z) :
                /\ \A c \in FreeInBlock(z) : RowMajorBefore(t, c) \/ t = c
                /\ r.mine_positions = (mine_positions \ {m}) \cup {t}
                /\ {c \in Cells : r.board[c] = MINE} = r.mine_positions

\* c comes before d when the columns are read one after the other.
ColumnMajorBefore(c, d) == c[2] < d[2] \/ (c[2] = d[2] /\ c[1] < d[1])

\* A zone with a mine farther than 5 from it and a mine within 5, whose
\* block has free cells in two rows and two columns: the first free cell
\* with dx outside and dy inside, where the drift moves the far mine, is
\* not the first free cell with dy outside and dx inside.
C18_Witness ==
    /\ error = "none"
    /\ \E z \in Range(danger_zones) :
           /\ FarMines(z) # {}
           /\ FarMines(z) # MineCells
           /\ \E t \in FreeInBlock(z) : \E u \in FreeInBlock(z) :
                  /\ t # u
                  /\ \A c \in FreeInBlock(z) : RowMajorBefore(t, c) \/ t = c
                  /\ \A c \in FreeInBlock(z) : ColumnMajorBefore(u, c) \/ u = c

\* C20, as the specification states it: a click that reveals nothing new
\* (the cell is revealed already) appends nothing to the move history and
\* changes neither the danger zones, the mine layout nor the difficulty.
\* reveal returns True for a revealed cell, and the click handler then calls
\* record_move and update_board_state as for a new reveal.
C20_NoTurnOnNoop ==
    (driver = "game" /\ ~game_over /\ error = "none") =>
        \A c \in Cells :
            (revealed[c] /\ ~flagged[c]) =>
                \A py \in GameCallers :
                LET r == Reveal(Self, c[1], c[2], py)
                    A == IF r.result THEN RecordMove(Ai, c[1], c[2]) ELSE Ai
                    U == IF r.result
                         THEN UpdateBoardState([Self EXCEPT !.revealed = r.revealed], A)
                         ELSE {[board |-> board, mine_positions |-> mine_positions,
                                difficulty_factor |-> difficulty_factor,
                                error |-> "none"]}
                IN  /\ A.move_history = move_history
                    /\ A.danger_zones = danger_zones
                    /\ \A u \in U : /\ u.mine_positions = mine_positions
                                    /\ u.difficulty_factor = difficulty_factor

\* C21: reveal(x, y) on an unrevealed, unflagged mine returns False, sets
\* revealed on that cell and on no other (there is no flood-fill), and
\* assigns no other field of the board.
C21_MineHitRevealsOneCell ==
    \A c \in Cells :
        (~revealed[c] /\ ~flagged[c] /\ board[c] = MINE) =>
            \A py \in DriverCallers :
            LET r == Reveal(Self, c[1], c[2], py)
            IN  /\ ~r.result
                /\ r.writes = <<c>>
                /\ CellSet(r.revealed) = CellSet(revealed) \cup {c}
                /\ \A d \in Cells \ {c} : r.revealed[d] = revealed[d]

\* A grid where reveal has been called on a mine first: the mine is the only
\* revealed cell, and it has an unflagged cell that is not a mine beside it.
C21_Witness ==
    /\ driver = "calls"
    /\ \E m \in MineCells :
           /\ CellSet(revealed) = {m}
           /\ \E d \in Cells : Adjacent(m, d) /\ board[d] # MINE /\ ~flagged[d]

\* C22, as the specification states it: in a game played with reveals,
\* flags, hints and adaptive turns, no operation raises.  On a grid without
\* mines a flagged cell stays unrevealed, the transformation picks it, and
\* next(iter(mine_positions)) raises StopIteration on the empty set.
C22_NoOperationFails == driver = "game" => error = "none"

=============================================================================
